---- MODULE Spec2Model ----
(***************************************************************************)
(* A model of FileUtil (typhonjs-node-bundle/plugin-fileutil): the          *)
(* candidate resolver openFiles / openLocalConfigs, the lazy tree walkers   *)
(* walkDir / walkFiles and their consumers getDirList, getFileList,         *)
(* hasBabelConfig and hasTscConfig, and the path relativizer                *)
(* getRelativePath.                                                         *)
(*                                                                         *)
(* Strings are sequences of one-character strings, so that startsWith,      *)
(* path.join, path.resolve, path.relative and path.basename are computed    *)
(* the way Node computes them (POSIX flavour) and not assumed.              *)
(***************************************************************************)
EXTENDS Integers, Sequences, FiniteSets, TLC

VARIABLES
    baseCWD,    \* global.$$bundler_baseCWD
    origCWD,    \* global.$$bundler_origCWD
    files,      \* the candidate files on disk: absolute path -> how it loads
    tree,       \* the directory tree on disk, in depth-first read order
    op,         \* the handler that is running (or "idle")
    pc,         \* where the running handler stands
    args,       \* the arguments of the running handler
    extIdx,     \* openFiles: index of the extension the loop is at
    phase,      \* openLocalConfigs: which root the current openFiles call probes
    stack,      \* walkDir / walkFiles: the generator frames, innermost last
    yielded,    \* walkDir / walkFiles: the paths yielded so far, in order
    results,    \* getDirList / getFileList: the results array
    trace,      \* the effects performed so far, in order
    ret         \* the outcome of the handler, once it has one

vars == <<baseCWD, origCWD, files, tree, op, pc, args, extIdx, phase, stack,
          yielded, results, trace, ret>>

-----------------------------------------------------------------------------
(* Bounds of the model. *)

\* Longest extension list passed to openFiles / openLocalConfigs.
MaxExts == 2

\* Most entries (directories, files, others) in the tree below the walk root.
MaxNodes == 3

-----------------------------------------------------------------------------
(* Strings and the path module (POSIX). *)

sep == "/"

dot == "."

\* String.prototype.startsWith
StartsWith(s, prefix) ==
    /\ Len(prefix) <= Len(s)
    /\ SubSeq(s, 1, Len(prefix)) = prefix

\* The segments of a path: the pieces between separators (empty ones included).
RECURSIVE Split(_)
Split(s) ==
    IF \A i \in 1..Len(s) : s[i] # sep
    THEN <<s>>
    ELSE LET i == CHOOSE k \in 1..Len(s) :
                      s[k] = sep /\ \A j \in 1..(k - 1) : s[j] # sep
         IN  <<SubSeq(s, 1, i - 1)>> \o Split(SubSeq(s, i + 1, Len(s)))

\* Segments joined by the separator.
RECURSIVE JoinSegs(_)
JoinSegs(segs) ==
    IF segs = <<>> THEN <<>>
    ELSE IF Len(segs) = 1 THEN segs[1]
    ELSE segs[1] \o <<sep>> \o JoinSegs(Tail(segs))

\* normalizeString of Node's path module: "" and "." segments are dropped,
\* ".." removes the segment before it; above the start, ".." is kept only
\* when allowAbove (a relative path).
RECURSIVE NormSegs(_, _, _)
NormSegs(segs, acc, allowAbove) ==
    IF segs = <<>> THEN acc
    ELSE LET s == Head(segs)
             rest == Tail(segs)
         IN  IF s = <<>> \/ s = <<dot>>
             THEN NormSegs(rest, acc, allowAbove)
             ELSE IF s = <<dot, dot>>
             THEN IF acc # <<>> /\ acc[Len(acc)] # <<dot, dot>>
                  THEN NormSegs(rest, SubSeq(acc, 1, Len(acc) - 1), allowAbove)
                  ELSE IF allowAbove
                       THEN NormSegs(rest, Append(acc, s), allowAbove)
                       ELSE NormSegs(rest, acc, allowAbove)
             ELSE NormSegs(rest, Append(acc, s), allowAbove)

IsAbsolute(p) == Len(p) > 0 /\ p[1] = sep

\* path.normalize
PathNormalize(p) ==
    IF p = <<>> THEN <<dot>>
    ELSE LET abs == IsAbsolute(p)
             trailing == p[Len(p)] = sep
             body == JoinSegs(NormSegs(Split(p), <<>>, ~abs))
         IN  IF body = <<>>
             THEN IF abs THEN <<sep>>
                  ELSE IF trailing THEN <<dot, sep>> ELSE <<dot>>
             ELSE (IF abs THEN <<sep>> ELSE <<>>) \o body
                  \o (IF trailing THEN <<sep>> ELSE <<>>)

\* path.join of two pieces
PathJoin(a, b) ==
    IF a = <<>> /\ b = <<>> THEN <<dot>>
    ELSE IF a = <<>> THEN PathNormalize(b)
    ELSE IF b = <<>> THEN PathNormalize(a)
    ELSE PathNormalize(a \o <<sep>> \o b)

\* process.cwd(): the directory relative paths are resolved against.
ProcessCwd == <<sep, "r">>

\* path.resolve of one path: absolute, normalized, no trailing separator.
PathResolve(p) ==
    LET full == IF IsAbsolute(p) THEN p ELSE ProcessCwd \o <<sep>> \o p
    IN  <<sep>> \o JoinSegs(NormSegs(Split(full), <<>>, FALSE))

\* The segments of a resolved path ("/" has none).
ResolvedSegs(p) == NormSegs(Split(PathResolve(p)), <<>>, FALSE)

\* Length of the longest common prefix of two segment lists.
RECURSIVE CommonLen(_, _)
CommonLen(a, b) ==
    IF a = <<>> \/ b = <<>> THEN 0
    ELSE IF Head(a) = Head(b) THEN 1 + CommonLen(Tail(a), Tail(b))
    ELSE 0

\* path.relative
PathRelative(from, to) ==
    LET f == ResolvedSegs(from)
        t == ResolvedSegs(to)
        c == CommonLen(f, t)
        ups == [i \in 1..(Len(f) - c) |-> <<dot, dot>>]
    IN  JoinSegs(ups \o SubSeq(t, c + 1, Len(t)))

\* path.basename (no extension argument)
PathBasename(p) ==
    LET segs == SelectSeq(Split(p), LAMBDA s : s # <<>>)
    IN  IF segs = <<>> THEN <<>> ELSE segs[Len(segs)]

-----------------------------------------------------------------------------
(* The environment of the candidate resolver. *)

\* The extensions a caller may list (openFiles takes any strings).
Exts == { <<dot, "j", "s">>, <<dot, "j", "s", "o", "n">> }

\* The file stem (baseFileName) a caller passes.
Stems == { <<"c">> }

\* The original working directory, and the working directories the bundler
\* may have been moved to: the same one, one below it, an unrelated one.
OrigRoots == { <<sep, "o">> }

BaseRoots == { <<sep, "o">>, <<sep, "o", sep, "w">>, <<sep, "w">> }

\* All finite sequences over S of length at most n.
SeqsUpTo(S, n) == UNION { [1..k -> S] : k \in 0..n }

\* How a file on disk behaves under the two loading strategies:
\* require(path) returns a value or throws, import(path) resolves to a module
\* or rejects.
Absent == [exists |-> FALSE, require |-> "throws", import |-> "rejects"]

LoadKinds ==
    { [exists |-> TRUE, require |-> "returns", import |-> "resolves"],
      [exists |-> TRUE, require |-> "throws", import |-> "resolves"],
      [exists |-> TRUE, require |-> "throws", import |-> "rejects"] }

\* The value require(path) returns, and the default export of the module
\* import(path) resolves to.
RequireValue(path) == <<"module.exports", path>>

ImportDefault(path) == <<"module.default", path>>

\* JavaScript's null.
Null == [null |-> TRUE]

NoArgs == [basePath |-> <<>>, baseFileName |-> <<>>, extensions |-> <<>>,
           filePath |-> <<>>, dir |-> <<>>, skipDir |-> <<>>]

\* An effect the handler performs, as the trace records it: what was done, and
\* the path (or, for a return, the value) it was done with.
Event(e, arg) == [ev |-> e, arg |-> arg]

-----------------------------------------------------------------------------
(* getRelativePath *)

\* the './' prefix rule of getRelativePath
DotPrefixed(returnPath) ==
    IF StartsWith(returnPath, <<dot>>) THEN returnPath
    ELSE <<dot, sep>> \o returnPath

getRelativePath(basePath, filePath) ==
    IF StartsWith(filePath, basePath)
    THEN DotPrefixed(PathRelative(basePath, filePath))
    ELSE filePath

-----------------------------------------------------------------------------
(* openFiles and openLocalConfigs *)

\* fs.existsSync
existsSync(path) == path \in DOMAIN files /\ files[path].exists

\* `${baseFileName}${extension}`
FileNameOf(baseFileName, extension) == baseFileName \o extension

\* A path built without the separator.
AbsFilePathOf_noSep(basePath, fileName) == basePath \o fileName

\* `${basePath}${path.sep}${fileName}`
AbsFilePathOf(basePath, fileName) == basePath \o <<sep>> \o fileName

\* The root that relativePath of a LoadResult is computed against.
RelativePathRoot == baseCWD

\* The base path of the openFiles call that is running: its own argument, or
\* the one openLocalConfigs passes.
CurBasePath ==
    IF op = "openFiles" THEN args.basePath
    ELSE IF phase = "base" THEN baseCWD ELSE origCWD

\* fileInfo of the loop iteration at extension index i
FileInfo(i) ==
    LET extension == args.extensions[i]
        fileName == FileNameOf(args.baseFileName, extension)
        absFilePath == AbsFilePathOf(CurBasePath, fileName)
    IN  [absFilePath |-> absFilePath,
         baseFileName |-> args.baseFileName,
         extension |-> extension,
         fileName |-> fileName,
         relativePath |-> getRelativePath(RelativePathRoot, absFilePath)]

\* Object.assign(fileInfo, { data })
WithData(fileInfo, data) ==
    [absFilePath |-> fileInfo.absFilePath,
     baseFileName |-> fileInfo.baseFileName,
     extension |-> fileInfo.extension,
     fileName |-> fileInfo.fileName,
     relativePath |-> fileInfo.relativePath,
     data |-> data]

\* The working root probed first even when it is the original root.
ProbeBaseFirst_always == TRUE

\* openLocalConfigs: whether the working root is probed before the original.
ProbeBaseFirst == baseCWD # origCWD

\* openLocalConfigs: whether the result of the working-root call is returned.
EarlyOut(data) == data # Null

\* The loop going on to the next extension after a load failure.
AfterLoadFailure_continue(i) == i + 1

\* The index the extension loop continues at once an existing file has failed
\* both loading strategies: past the end (the `break`).
AfterLoadFailure(i) == Len(args.extensions) + 1

\* The running openFiles call returns v to its caller: to the caller of the
\* handler, or to openLocalConfigs, which returns it or probes origCWD.
\* tr is the trace up to the return.
ReturnFromOpenFiles(v, tr) ==
    LET returned == Append(tr, Event("return:openFiles", v))
    IN  IF op = "openLocalConfigs" /\ phase = "base" /\ ~EarlyOut(v)
        THEN /\ phase' = "orig"
             /\ extIdx' = 1
             /\ pc' = "loop"
             /\ ret' = ret
             /\ trace' = Append(returned, Event("call:openFiles", origCWD))
        ELSE /\ phase' = phase
             /\ extIdx' = extIdx
             /\ pc' = "done"
             /\ ret' = v
             /\ trace' = returned

CallOpenFiles(basePath, baseFileName, extensions) ==
    /\ op = "idle"
    /\ op' = "openFiles"
    /\ args' = [NoArgs EXCEPT !.basePath = basePath,
                              !.baseFileName = baseFileName,
                              !.extensions = extensions]
    /\ pc' = "loop"
    /\ extIdx' = 1
    /\ trace' = Append(trace, Event("call:openFiles", basePath))
    /\ UNCHANGED <<baseCWD, origCWD, files, tree, phase, stack, yielded,
                   results, ret>>

CallOpenLocalConfigs(baseFileName, extensions) ==
    /\ op = "idle"
    /\ op' = "openLocalConfigs"
    /\ args' = [NoArgs EXCEPT !.baseFileName = baseFileName,
                              !.extensions = extensions]
    /\ phase' = IF ProbeBaseFirst THEN "base" ELSE "orig"
    /\ pc' = "loop"
    /\ extIdx' = 1
    /\ trace' = Append(trace, Event("call:openFiles",
                                    IF ProbeBaseFirst THEN baseCWD ELSE origCWD))
    /\ UNCHANGED <<baseCWD, origCWD, files, tree, stack, yielded, results,
                   ret>>

\* The extension loop of openFiles up to its first suspension: candidates
\* that do not exist are passed over, the first that exists is require()d.
OpenFilesLoop ==
    /\ op \in {"openFiles", "openLocalConfigs"}
    /\ pc = "loop"
    /\ IF extIdx > Len(args.extensions)
       THEN ReturnFromOpenFiles(Null, trace)
       ELSE LET fileInfo == FileInfo(extIdx)
                p == fileInfo.absFilePath
            IN  IF ~existsSync(p)
                THEN /\ trace' = Append(trace, Event("existsSync", p))
                     /\ extIdx' = extIdx + 1
                     /\ UNCHANGED <<pc, phase, ret>>
                ELSE IF files[p].require = "returns"
                THEN ReturnFromOpenFiles(
                         WithData(fileInfo, RequireValue(p)),
                         trace \o <<Event("existsSync", p), Event("require", p)>>)
                ELSE /\ trace' = trace \o <<Event("existsSync", p),
                                            Event("require", p)>>
                     /\ pc' = "import"
                     /\ UNCHANGED <<extIdx, phase, ret>>
    /\ UNCHANGED <<baseCWD, origCWD, files, tree, op, args, stack, yielded,
                   results>>

\* A catch block that gives up after require() alone: no dynamic import.
OpenFilesImport_requireOnly ==
    /\ op \in {"openFiles", "openLocalConfigs"}
    /\ pc = "import"
    /\ LET p == FileInfo(extIdx).absFilePath
       IN  ReturnFromOpenFiles(
               Null, Append(trace, Event("log:warn", getRelativePath(origCWD, p))))
    /\ UNCHANGED <<baseCWD, origCWD, files, tree, op, args, stack, yielded,
                   results>>

\* An inner catch block that swallows the second failure without a warning.
LoadFailureEffects_silent(p) == <<Event("import", p)>>

\* What openFiles does at an existing file that require() has failed on and
\* that import() fails on too: the rejected import, then the inner catch
\* block's one trigger of 'log:warn', with the path relative to origCWD.
LoadFailureEffects(p) ==
    <<Event("import", p), Event("log:warn", getRelativePath(origCWD, p))>>

\* The catch block of openFiles: the dynamic import, and on its failure the
\* warning and the end of the loop.
OpenFilesImport ==
    /\ op \in {"openFiles", "openLocalConfigs"}
    /\ pc = "import"
    /\ LET fileInfo == FileInfo(extIdx)
           p == fileInfo.absFilePath
       IN  IF files[p].import = "resolves"
           THEN ReturnFromOpenFiles(WithData(fileInfo, ImportDefault(p)),
                                    Append(trace, Event("import", p)))
           ELSE LET warned == trace \o LoadFailureEffects(p)
                IN  IF AfterLoadFailure(extIdx) > Len(args.extensions)
                    THEN ReturnFromOpenFiles(Null, warned)
                    ELSE /\ extIdx' = AfterLoadFailure(extIdx)
                         /\ pc' = "loop"
                         /\ trace' = warned
                         /\ UNCHANGED <<phase, ret>>
    /\ UNCHANGED <<baseCWD, origCWD, files, tree, op, args, stack, yielded,
                   results>>

\* The candidate paths of a pair of roots.
CandidatePaths(roots) ==
    { r \o <<sep>> \o st \o e : r \in roots, st \in Stems, e \in Exts }

InitOpen ==
    /\ origCWD \in OrigRoots
    /\ baseCWD \in BaseRoots
    /\ files \in [CandidatePaths({baseCWD, origCWD}) -> LoadKinds \cup {Absent}]
    /\ tree = <<>>
    /\ op = "idle"
    /\ pc = "idle"
    /\ args = NoArgs
    /\ extIdx = 0
    /\ phase = "direct"
    /\ stack = <<>>
    /\ yielded = <<>>
    /\ results = <<>>
    /\ trace = <<>>
    /\ ret = Null

NextOpen ==
    \/ \E b \in {baseCWD, origCWD}, st \in Stems, x \in SeqsUpTo(Exts, MaxExts) :
           CallOpenFiles(b, st, x)
    \/ \E st \in Stems, x \in SeqsUpTo(Exts, MaxExts) :
           CallOpenLocalConfigs(st, x)
    \/ OpenFilesLoop
    \/ OpenFilesImport

SpecOpen == InitOpen /\ [][NextOpen]_vars

-----------------------------------------------------------------------------
(* The directory tree the walkers read. *)

\* The names the presence probes look for.
s_BABEL_CONFIG ==
    { <<dot, "b", "a", "b", "e", "l", "r", "c">>,
      <<dot, "b", "a", "b", "e", "l", "r", "c", dot, "c", "j", "s">>,
      <<dot, "b", "a", "b", "e", "l", "r", "c", dot, "j", "s">>,
      <<dot, "b", "a", "b", "e", "l", "r", "c", dot, "m", "j", "s">>,
      <<dot, "b", "a", "b", "e", "l", "r", "c", dot, "j", "s", "o", "n">>,
      <<"b", "a", "b", "e", "l", dot, "c", "o", "n", "f", "i", "g", dot, "c", "j", "s">>,
      <<"b", "a", "b", "e", "l", dot, "c", "o", "n", "f", "i", "g", dot, "j", "s">>,
      <<"b", "a", "b", "e", "l", dot, "c", "o", "n", "f", "i", "g", dot, "j", "s", "o", "n">>,
      <<"b", "a", "b", "e", "l", dot, "c", "o", "n", "f", "i", "g", dot, "m", "j", "s">> }

s_TSC_CONFIG ==
    { <<"t", "s", "c", "o", "n", "f", "i", "g", dot, "j", "s", "o", "n">>,
      <<"j", "s", "c", "o", "n", "f", "i", "g", dot, "j", "s", "o", "n">> }

\* What a directory entry of the tree may be: plain directories, a hidden
\* directory, a directory that cannot be opened (EACCES), regular files, and
\* an entry that is neither a directory nor a regular file (a symbolic link, a
\* socket, a FIFO: Dirent.isDirectory() and Dirent.isFile() are both false).
DirentKinds ==
    { [name |-> <<"a">>, type |-> "dir", readable |-> TRUE],
      [name |-> <<"n">>, type |-> "dir", readable |-> TRUE],
      [name |-> <<dot, "h">>, type |-> "dir", readable |-> TRUE],
      [name |-> <<"x">>, type |-> "dir", readable |-> FALSE],
      [name |-> <<dot, "b", "a", "b", "e", "l", "r", "c">>,
       type |-> "file", readable |-> TRUE],
      [name |-> <<"t", "s", "c", "o", "n", "f", "i", "g", dot, "j", "s", "o", "n">>,
       type |-> "file", readable |-> TRUE],
      [name |-> <<"l">>, type |-> "other", readable |-> TRUE] }

\* The directory the tree hangs from: the process's working directory.
TreeRoot == ProcessCwd

\* The directory arguments a caller passes: the default '.', and '.h', which
\* is a hidden directory of the root in some trees and does not exist in the
\* others.
WalkDirs == { <<dot>>, <<dot, "h">> }

\* The skipDir arguments a caller passes.
SkipDirs == { <<>>, << <<"n">> >> }

\* A tree is the sequence of its entries in depth-first read order, each with
\* its depth below the root (1 for the root's own entries).
TreeNode(k, d) ==
    [name |-> k.name, type |-> k.type, readable |-> k.readable, depth |-> d]

\* Entry nd may follow the entries of t: it is the first entry of the
\* directory just before it, or the next entry of a directory still open, and
\* no entry of that directory has its name. Nothing is listed below a
\* directory that cannot be opened.
CanAppend(t, nd) ==
    IF t = <<>> THEN nd.depth = 1
    ELSE LET last == t[Len(t)]
         IN  /\ nd.depth <= last.depth + 1
             /\ nd.depth = last.depth + 1 =>
                    last.type = "dir" /\ last.readable
             /\ \A j \in 1..Len(t) :
                    ( /\ t[j].depth = nd.depth
                      /\ \A m \in (j + 1)..Len(t) : t[m].depth >= nd.depth ) =>
                        t[j].name # nd.name

RECURSIVE TreesOfSize(_)
TreesOfSize(n) ==
    IF n = 0 THEN { <<>> }
    ELSE { Append(t, TreeNode(k, d)) :
               <<t, k, d>> \in
                   { x \in TreesOfSize(n - 1) \X DirentKinds \X (1..n) :
                         CanAppend(x[1], TreeNode(x[2], x[3])) } }

Trees == UNION { TreesOfSize(n) : n \in 0..MaxNodes }

\* The entry that holds entry j (0: the root).
ParentOf(t, j) ==
    IF t[j].depth = 1 THEN 0
    ELSE CHOOSE i \in 1..(j - 1) :
             /\ t[i].depth = t[j].depth - 1
             /\ \A m \in (i + 1)..j : t[m].depth >= t[j].depth

\* The absolute path of entry j.
RECURSIVE AbsPathOf(_, _)
AbsPathOf(t, j) ==
    IF j = 0 THEN TreeRoot
    ELSE AbsPathOf(t, ParentOf(t, j)) \o <<sep>> \o t[j].name

\* The entries of the directory that is entry i (0: the root), in read order.
ChildrenOf(t, i) ==
    LET d == IF i = 0 THEN 0 ELSE t[i].depth
        IsChild(j) == /\ j > i
                      /\ t[j].depth = d + 1
                      /\ \A m \in (i + 1)..j : t[m].depth > d
        idx == { j \in 1..Len(t) : IsChild(j) }
        RECURSIVE Ordered(_)
        Ordered(S) ==
            IF S = {} THEN <<>>
            ELSE LET j == CHOOSE x \in S : \A y \in S : x <= y
                 IN  <<t[j]>> \o Ordered(S \ {j})
    IN  Ordered(idx)

\* The directory a path names: 0 for the root, the entry's index, or -1 when
\* the path names no directory of the tree (ENOENT, ENOTDIR).
DirIndexOf(path) ==
    LET abs == PathResolve(path)
        hits == { j \in 1..Len(tree) :
                      tree[j].type = "dir" /\ AbsPathOf(tree, j) = abs }
    IN  IF abs = TreeRoot THEN 0
        ELSE IF hits = {} THEN -1
        ELSE CHOOSE j \in hits : TRUE

\* Whether fs.promises.opendir(path) resolves; if not it rejects.
CanOpendir(path) ==
    LET i == DirIndexOf(path)
    IN  i = 0 \/ (i > 0 /\ tree[i].readable)

\* The Dirents the opened directory will hand out, in read order.
Opendir(path) == ChildrenOf(tree, DirIndexOf(path))

-----------------------------------------------------------------------------
(* walkDir and walkFiles *)

\* new Map(skipDir.map((entry) => [entry, 1])), as the set of its keys
skipDirMap(skipDir) == { skipDir[i] : i \in 1..Len(skipDir) }

\* The hidden-directory rule left out of the test.
IsSkipped_noHidden(d, skipDir) ==
    d.type = "dir" /\ d.name \in skipDirMap(skipDir)

\* The skipDir list left out of the test.
IsSkipped_noSkipDir(d, skipDir) ==
    d.type = "dir" /\ StartsWith(d.name, <<dot>>)

\* The test that skips an entry: a directory in skipDir, or a hidden one.
IsSkipped(d, skipDir) ==
    d.type = "dir" /\ (d.name \in skipDirMap(skipDir) \/ StartsWith(d.name, <<dot>>))

\* The skipDir list handed down to the recursive call.
RecursiveSkipDir_threaded(skipDir) == skipDir

\* The skipDir of a recursive call: the parameter's default, the call passes
\* none.
RecursiveSkipDir(skipDir) == <<>>

\* Every entry that is not a directory yielded.
YieldsFile_anyNonDirectory(d) == d.type # "dir"

\* walkFiles: the entries it yields (Dirent.isFile()).
YieldsFile(d) == d.type = "file"

\* A generator frame: a call of walkDir / walkFiles that has not yet opened
\* its directory.
Frame(mode, dir, skipDir) ==
    [mode |-> mode, dir |-> dir, skipDir |-> skipDir, opened |-> FALSE,
     entries |-> <<>>]

\* What running the generator to its next suspension gives: a yielded path,
\* the end of the walk, or the error that ended it; with the frames and the
\* effects after it.
Outcome(kind, value, stk, tr) ==
    [kind |-> kind, value |-> value, stack |-> stk, trace |-> tr]

RECURSIVE RunToYield(_, _)

\* An opendir failure that gives up the directory and goes on with the rest.
OpendirFailed_skipSubtree(stk, tr) ==
    RunToYield(SubSeq(stk, 1, Len(stk) - 1), tr)

\* opendir rejects: the error leaves every generator frame and reaches the
\* consumer.
OpendirFailed(stk, tr) == Outcome("error", <<"opendir", stk[Len(stk)].dir>>, <<>>, tr)

\* The generator (the innermost frame of stk) runs from a next() request to
\* its next yield, its end or its failure.
RunToYield(stk, tr) ==
    IF stk = <<>> THEN Outcome("done", <<>>, <<>>, tr)
    ELSE LET f == stk[Len(stk)]
             below == SubSeq(stk, 1, Len(stk) - 1)
         IN  IF ~f.opened
             THEN LET tr1 == Append(tr, Event("opendir", f.dir))
                  IN  IF CanOpendir(f.dir)
                      THEN RunToYield(
                               Append(below, [f EXCEPT !.opened = TRUE,
                                                       !.entries = Opendir(f.dir)]),
                               tr1)
                      ELSE OpendirFailed(stk, tr1)
             ELSE IF f.entries = <<>>
             THEN RunToYield(below, Append(tr, Event("close", f.dir)))
             ELSE LET d == Head(f.entries)
                      entry == PathJoin(f.dir, d.name)
                      rest == Append(below, [f EXCEPT !.entries = Tail(f.entries)])
                      tr1 == Append(tr, Event("read", entry))
                      inner == Frame(f.mode, entry, RecursiveSkipDir(f.skipDir))
                  IN  IF IsSkipped(d, f.skipDir)
                      THEN RunToYield(rest, tr1)
                      ELSE IF d.type = "dir"
                      THEN IF f.mode = "walkDir"
                           THEN Outcome("yield", entry, Append(rest, inner),
                                        Append(tr1, Event("yield", entry)))
                           ELSE RunToYield(Append(rest, inner), tr1)
                      ELSE IF f.mode = "walkFiles" /\ YieldsFile(d)
                      THEN Outcome("yield", entry, rest,
                                   Append(tr1, Event("yield", entry)))
                      ELSE RunToYield(rest, tr1)

-----------------------------------------------------------------------------
(* getDirList, getFileList, hasBabelConfig, hasTscConfig *)

\* The full path compared with the table.
IsConfigName_fullPath(table, p) == p \in table

\* The test of the presence probes: the base name of the path is in the table.
IsConfigName(table, p) == PathBasename(p) \in table

\* The generator each handler drives, and the table each probe looks in.
ModeOf(o) == IF o = "getDirList" THEN "walkDir" ELSE "walkFiles"

TableOf(o) == IF o = "hasBabelConfig" THEN s_BABEL_CONFIG ELSE s_TSC_CONFIG

Listers == {"getDirList", "getFileList"}

Probes == {"hasBabelConfig", "hasTscConfig"}

\* A handler is called: the generator is created, nothing is opened yet.
CallWalker(o, dir, skipDir) ==
    /\ op = "idle"
    /\ op' = o
    /\ args' = [NoArgs EXCEPT !.dir = dir, !.skipDir = skipDir]
    /\ pc' = "for await"
    /\ stack' = << Frame(ModeOf(o), dir, skipDir) >>
    /\ trace' = Append(trace, Event("call:" \o ModeOf(o), dir))
    /\ UNCHANGED <<baseCWD, origCWD, files, tree, extIdx, phase, yielded,
                   results, ret>>

CallGetDirList(dir, skipDir) == CallWalker("getDirList", dir, skipDir)

CallGetFileList(dir, skipDir) == CallWalker("getFileList", dir, skipDir)

CallHasBabelConfig(dir, skipDir) == CallWalker("hasBabelConfig", dir, skipDir)

CallHasTscConfig(dir, skipDir) == CallWalker("hasTscConfig", dir, skipDir)

\* One turn of the `for await` loop of a lister: the generator runs to its
\* next yield and the path is pushed, resolved; or it ends and the results are
\* returned; or it fails and the call fails.
ListerTurn ==
    /\ op \in Listers
    /\ pc = "for await"
    /\ \E r \in { RunToYield(stack, trace) } :
           /\ stack' = r.stack
           /\ trace' = r.trace
           /\ IF r.kind = "yield"
              THEN /\ yielded' = Append(yielded, r.value)
                   /\ results' = Append(results, PathResolve(r.value))
                   /\ UNCHANGED <<pc, ret>>
              ELSE IF r.kind = "done"
              THEN /\ pc' = "done"
                   /\ ret' = results
                   /\ UNCHANGED <<yielded, results>>
              ELSE /\ pc' = "failed"
                   /\ ret' = r.value
                   /\ UNCHANGED <<yielded, results>>
    /\ UNCHANGED <<baseCWD, origCWD, files, tree, op, args, extIdx, phase>>

\* One turn of the `for await` loop of a probe: a yielded path whose base name
\* is in the table ends the call with true, and the generator with it (the
\* loop's return closes it: its frames are dropped, nothing more is read).
ProbeTurn ==
    /\ op \in Probes
    /\ pc = "for await"
    /\ \E r \in { RunToYield(stack, trace) } :
           /\ results' = results
           /\ IF r.kind = "yield"
              THEN /\ yielded' = Append(yielded, r.value)
                   /\ IF IsConfigName(TableOf(op), r.value)
                      THEN /\ pc' = "done"
                           /\ ret' = TRUE
                           /\ stack' = <<>>
                           /\ trace' = Append(r.trace, Event("return", r.value))
                      ELSE /\ stack' = r.stack
                           /\ trace' = r.trace
                           /\ UNCHANGED <<pc, ret>>
              ELSE IF r.kind = "done"
              THEN /\ pc' = "done"
                   /\ ret' = FALSE
                   /\ stack' = r.stack
                   /\ trace' = r.trace
                   /\ yielded' = yielded
              ELSE /\ pc' = "failed"
                   /\ ret' = r.value
                   /\ stack' = r.stack
                   /\ trace' = r.trace
                   /\ yielded' = yielded
    /\ UNCHANGED <<baseCWD, origCWD, files, tree, op, args, extIdx, phase>>

InitWalk ==
    /\ origCWD = ProcessCwd
    /\ baseCWD = ProcessCwd
    /\ files = << >>
    /\ tree \in Trees
    /\ op = "idle"
    /\ pc = "idle"
    /\ args = NoArgs
    /\ extIdx = 0
    /\ phase = "direct"
    /\ stack = <<>>
    /\ yielded = <<>>
    /\ results = <<>>
    /\ trace = <<>>
    /\ ret = Null

NextWalk ==
    \/ \E dir \in WalkDirs, skipDir \in SkipDirs : CallGetDirList(dir, skipDir)
    \/ \E dir \in WalkDirs, skipDir \in SkipDirs : CallGetFileList(dir, skipDir)
    \/ \E dir \in WalkDirs, skipDir \in SkipDirs : CallHasBabelConfig(dir, skipDir)
    \/ \E dir \in WalkDirs, skipDir \in SkipDirs : CallHasTscConfig(dir, skipDir)
    \/ ListerTurn
    \/ ProbeTurn

SpecWalk == InitWalk /\ [][NextWalk]_vars

-----------------------------------------------------------------------------
(* getRelativePath called on its own: any two strings. *)

\* Longest basePath and longest filePath the relativizer is called with.
MaxBaseLen == 2

MaxPathLen == 5

\* The characters of those strings: the separator, the dot, a letter.
PathChars == { sep, dot, "o" }

\* getRelativePath is static, pure and synchronous: the call returns at once.
CallGetRelativePath(basePath, filePath) ==
    /\ op = "idle"
    /\ op' = "getRelativePath"
    /\ pc' = "done"
    /\ args' = [NoArgs EXCEPT !.basePath = basePath, !.filePath = filePath]
    /\ ret' = getRelativePath(basePath, filePath)
    /\ UNCHANGED <<baseCWD, origCWD, files, tree, extIdx, phase, stack,
                   yielded, results, trace>>

InitRel ==
    /\ origCWD = ProcessCwd
    /\ baseCWD = ProcessCwd
    /\ files = << >>
    /\ tree = << >>
    /\ op = "idle"
    /\ pc = "idle"
    /\ args = NoArgs
    /\ extIdx = 0
    /\ phase = "direct"
    /\ stack = <<>>
    /\ yielded = <<>>
    /\ results = <<>>
    /\ trace = <<>>
    /\ ret = Null

NextRel ==
    \E basePath \in SeqsUpTo(PathChars, MaxBaseLen),
       filePath \in SeqsUpTo(PathChars, MaxPathLen) :
        CallGetRelativePath(basePath, filePath)

SpecRel == InitRel /\ [][NextRel]_vars

-----------------------------------------------------------------------------
(* Properties of openFiles and openLocalConfigs. *)

\* The effects that probe or load a candidate file.
ProbeEvents == {"existsSync", "require", "import"}

\* Positions k < j of the trace lie in the same openFiles call.
SameCall(k, j) == \A m \in (k + 1)..j : trace[m].ev # "call:openFiles"

\* The openFiles calls made so far, and their returns.
Calls == SelectSeq(trace, LAMBDA e : e.ev = "call:openFiles")

Returns == SelectSeq(trace, LAMBDA e : e.ev = "return:openFiles")

\* The candidate path of extension i of the running handler under a root.
CandidateAt(root, i) == root \o <<"/">> \o args.baseFileName \o args.extensions[i]

LoadsNeither(p) == files[p].require = "throws" /\ files[p].import = "rejects"

C2_FirstExistingCandidate ==
    op = "openFiles" =>
        LET n == Len(args.extensions)
            Existing == { i \in 1..n : files[CandidateAt(args.basePath, i)].exists }
            first == CHOOSE i \in Existing : \A j \in Existing : i <= j
        IN  /\ \A k \in 1..Len(trace) :
                   trace[k].ev \in {"require", "import"} =>
                       /\ Existing # {}
                       /\ trace[k].arg = CandidateAt(args.basePath, first)
            /\ \A k \in 1..Len(trace) :
                   trace[k].ev = "log:warn" =>
                       /\ Existing # {}
                       /\ LoadsNeither(CandidateAt(args.basePath, first))
            /\ pc = "done" =>
                   IF Existing = {} THEN ret = Null
                   ELSE ~LoadsNeither(CandidateAt(args.basePath, first)) =>
                            /\ ret # Null
                            /\ ret.extension = args.extensions[first]
                            /\ ret.fileName =
                                   args.baseFileName \o args.extensions[first]
                            /\ ret.absFilePath =
                                   args.basePath \o <<"/">> \o ret.fileName

\* A direct openFiles call has returned the second extension of its list, the
\* first one naming no file.
C2_Witness ==
    /\ op = "openFiles"
    /\ pc = "done"
    /\ Len(args.extensions) = 2
    /\ ~files[CandidateAt(args.basePath, 1)].exists
    /\ ret # Null
    /\ ret.extension = args.extensions[2]

\* C3: for a candidate that exists, require() is attempted first, right after
\* the existence check; import() is attempted exactly when require() threw,
\* and after it; the call returns a result whenever one of the two succeeds,
\* with data the value of require() if that returned and else the default
\* export of the imported module.
C3_RequireThenImport ==
    \A k \in 1..Len(trace) :
        LET e == trace[k]
            last == k = Len(trace)
        IN  /\ (e.ev = "existsSync" /\ files[e.arg].exists) =>
                   /\ ~last
                   /\ trace[k + 1] = Event("require", e.arg)
            /\ e.ev = "require" =>
                   /\ k > 1
                   /\ trace[k - 1] = Event("existsSync", e.arg)
            /\ e.ev = "import" =>
                   /\ k > 1
                   /\ trace[k - 1] = Event("require", e.arg)
                   /\ files[e.arg].require = "throws"
            /\ (e.ev = "require" /\ files[e.arg].require = "throws") =>
                   IF last THEN pc = "import"
                   ELSE trace[k + 1] = Event("import", e.arg)
            /\ (e.ev = "require" /\ files[e.arg].require = "returns") =>
                   /\ ~last
                   /\ trace[k + 1].ev = "return:openFiles"
                   /\ trace[k + 1].arg # Null
                   /\ trace[k + 1].arg.data = RequireValue(e.arg)
            /\ (e.ev = "import" /\ files[e.arg].import = "resolves") =>
                   /\ ~last
                   /\ trace[k + 1].ev = "return:openFiles"
                   /\ trace[k + 1].arg # Null
                   /\ trace[k + 1].arg.data = ImportDefault(e.arg)

\* A call has returned the default export of a module that require() could
\* not load.
C3_Witness ==
    /\ pc = "done"
    /\ ret # Null
    /\ files[ret.absFilePath].require = "throws"
    /\ ret.data = ImportDefault(ret.absFilePath)
    /\ \E k \in 1..Len(trace) : trace[k] = Event("import", ret.absFilePath)

\* C4: openLocalConfigs calls openFiles on the working root first exactly when
\* the working root differs from the original root, and returns a non-null
\* result of that call without probing the original root; in every other case
\* it calls openFiles exactly once on the original root and returns what that
\* call returns, null included.
C4_WorkingRootFirst ==
    op = "openLocalConfigs" =>
        /\ Len(Calls) >= 1
        /\ Calls[1].arg = (IF baseCWD # origCWD THEN baseCWD ELSE origCWD)
        /\ pc = "done" =>
               IF baseCWD # origCWD /\ Returns[1].arg # Null
               THEN /\ Len(Calls) = 1
                    /\ ret = Returns[1].arg
                    /\ \A k \in 1..Len(trace) :
                           trace[k].ev \in ProbeEvents =>
                               \A i \in 1..Len(args.extensions) :
                                   trace[k].arg # CandidateAt(origCWD, i)
               ELSE /\ Len(Calls) = (IF baseCWD # origCWD THEN 2 ELSE 1)
                    /\ Calls[Len(Calls)].arg = origCWD
                    /\ Len(Returns) = Len(Calls)
                    /\ ret = Returns[Len(Returns)].arg

\* openLocalConfigs has returned a result from the original root after the
\* working-root candidate failed to load.
C4_Witness ==
    /\ op = "openLocalConfigs"
    /\ pc = "done"
    /\ baseCWD # origCWD
    /\ \E k \in 1..Len(trace) : trace[k].ev = "log:warn"
    /\ Len(Calls) = 2
    /\ ret # Null
    /\ StartsWith(ret.absFilePath, origCWD)

\* C5 (as claimed): relativePath of every result is getRelativePath of the
\* original working directory and the result's absFilePath.
C5_RelativeToOriginalRoot ==
    (op \in {"openFiles", "openLocalConfigs"} /\ pc = "done" /\ ret # Null) =>
        ret.relativePath = getRelativePath(origCWD, ret.absFilePath)

-----------------------------------------------------------------------------
(* Properties of the walkers, the listers and the probes. *)

\* The names a path is made of.
NamesIn(p) == SelectSeq(Split(p), LAMBDA x : x # <<>>)

\* The names on the way from the root to entry j, the entry's own last.
RECURSIVE NamesTo(_)
NamesTo(j) ==
    IF j = 0 THEN <<>> ELSE Append(NamesTo(ParentOf(tree, j)), tree[j].name)

\* The directories that hold entry j, outermost first (the root left out).
RECURSIVE AncestorsOf(_)
AncestorsOf(j) ==
    LET i == ParentOf(tree, j)
    IN  IF i = 0 THEN <<>> ELSE Append(AncestorsOf(i), i)

\* The path of entry j relative to the process's working directory: its
\* names, separated. A walk of '.' or of a directory given relative to it
\* yields the entry under this path.
RelPathOf(j) == JoinSegs(NamesTo(j))

Hidden(name) == name # <<>> /\ name[1] = "."

\* The names of the running call's skipDir list.
SkipNames == { args.skipDir[i] : i \in 1..Len(args.skipDir) }

\* The directory the running call walks: 0 for the root of the tree, an
\* entry, or -1 when there is no such directory.
WalkRoot == DirIndexOf(args.dir)

\* Directory i is one a walk of root leaves out: hidden, or an entry of the
\* root named in skipDir.
LeftOutFrom(root, i) ==
    \/ Hidden(tree[i].name)
    \/ ParentOf(tree, i) = root /\ tree[i].name \in SkipNames

\* Entry j lies below root, in directories a walk of root comes to: none of
\* the directories between the root and the entry is left out.
ReachableFrom(root, j) ==
    LET anc == AncestorsOf(j)
        at == { m \in 1..Len(anc) : anc[m] = root }
    IN  /\ root >= 0
        /\ root = 0 \/ at # {}
        /\ \A m \in 1..Len(anc) :
               (root = 0 \/ \E r \in at : m > r) => ~LeftOutFrom(root, anc[m])

\* The same for the walk of the running call.
LeftOut(i) == LeftOutFrom(WalkRoot, i)

Reachable(j) == ReachableFrom(WalkRoot, j)

\* The entries the running call's walk comes to.
ReachableEntries ==
    LET root == WalkRoot
    IN  { j \in 1..Len(tree) : ReachableFrom(root, j) }

\* The names of a path below a directory whose own path has n names.
NamesBelow(n, p) ==
    LET names == NamesIn(PathResolve(p))
    IN  SubSeq(names, n + 1, Len(names))

\* The number of names in the path of the walk's root.
RootDepth == Len(NamesIn(PathResolve(args.dir)))

\* Path p is base or lies below it.
Under(p, base) == p = base \/ StartsWith(p, base \o <<"/">>)

WalkerOps == Listers \cup Probes

\* C6: whatever the skipDir list, walkDir yields no directory whose name
\* starts with '.', and no walk goes down into such a directory: below its
\* root it opens none, reads no entry of one and yields no path below one.
C6_HiddenDirectoriesPruned ==
    op \in WalkerOps =>
        LET n == RootDepth
        IN  /\ \A i \in 1..Len(yielded) :
                   LET names == NamesBelow(n, yielded[i])
                   IN  \A k \in 1..Len(names) :
                           (k < Len(names) \/ op = "getDirList") =>
                               ~Hidden(names[k])
            /\ \A k \in 1..Len(trace) :
                   /\ trace[k].ev = "opendir" =>
                          LET names == NamesBelow(n, trace[k].arg)
                          IN  \A m \in 1..Len(names) : ~Hidden(names[m])
                   /\ trace[k].ev = "read" =>
                          LET names == NamesBelow(n, trace[k].arg)
                          IN  \A m \in 1..(Len(names) - 1) : ~Hidden(names[m])

\* getFileList has walked, with an empty skipDir, a tree in which a hidden
\* directory two levels down holds an entry.
C6_Witness ==
    /\ op = "getFileList"
    /\ pc = "done"
    /\ args.skipDir = <<>>
    /\ \E j \in 1..(Len(tree) - 1) :
           /\ tree[j].type = "dir"
           /\ Hidden(tree[j].name)
           /\ tree[j].depth = 2
           /\ tree[j + 1].depth = 3

\* C7: a directory that is an entry of the walk's root and is named in
\* skipDir is not yielded and not opened, no entry below it is read, and no
\* path at or below it is yielded or put in the results of getDirList /
\* getFileList.
C7_SkipDirPrunedAtRoot ==
    (op \in WalkerOps /\ args.skipDir # <<>>) =>
        \A j \in { i \in 1..Len(tree) : tree[i].name \in SkipNames } :
            ( /\ ParentOf(tree, j) = WalkRoot
              /\ tree[j].type = "dir" ) =>
                LET rel == RelPathOf(j)
                    abs == TreeRoot \o <<"/">> \o rel
                IN  /\ \A i \in 1..Len(yielded) : ~Under(yielded[i], rel)
                    /\ \A i \in 1..Len(results) : ~Under(results[i], abs)
                    /\ \A k \in 1..Len(trace) :
                           /\ trace[k].ev = "opendir" => ~Under(trace[k].arg, rel)
                           /\ trace[k].ev = "read" =>
                                  ~StartsWith(trace[k].arg, rel \o <<"/">>)
                    /\ (pc = "done" /\ op \in Listers) =>
                           \A i \in 1..Len(ret) : ~Under(ret[i], abs)

\* getFileList has walked a tree whose first entry is a directory named in
\* skipDir that holds an entry.
C7_Witness ==
    /\ op = "getFileList"
    /\ pc = "done"
    /\ args.dir = <<".">>
    /\ Len(tree) >= 2
    /\ tree[1].type = "dir"
    /\ tree[1].name \in SkipNames
    /\ tree[2].depth = 2
    /\ tree[2].type = "file"

\* C8: a probe returns true at the first yielded path whose base name is in
\* its table, and with that the walk is over: the matching path is the last
\* entry read, nothing is opened after it. It returns false only when the
\* walk has come to its end and no regular file the walk comes to has such a
\* name.
C8_ProbeStopsAtFirstMatch ==
    op \in Probes =>
        LET table == IF op = "hasBabelConfig" THEN s_BABEL_CONFIG ELSE s_TSC_CONFIG
            matches == { i \in 1..Len(yielded) : PathBasename(yielded[i]) \in table }
            reads == { k \in 1..Len(trace) : trace[k].ev \in {"read", "opendir"} }
        IN  /\ matches # {} =>
                   /\ matches = { Len(yielded) }
                   /\ pc = "done"
                   /\ ret = TRUE
                   /\ stack = <<>>
                   /\ \E k \in reads :
                          /\ trace[k] = Event("read", yielded[Len(yielded)])
                          /\ \A m \in reads : m <= k
            /\ (pc = "done" /\ matches = {}) =>
                   /\ ret = FALSE
                   /\ stack = <<>>
                   /\ \A j \in ReachableEntries :
                          tree[j].type = "file" =>
                              /\ tree[j].name \notin table
                              /\ \E k \in reads :
                                     trace[k] = Event("read", RelPathOf(j))

\* hasTscConfig has returned true at the first entry of the root while the
\* root holds a second entry, which was never read.
C8_Witness ==
    /\ op = "hasTscConfig"
    /\ pc = "done"
    /\ ret = TRUE
    /\ Len(tree) >= 2
    /\ tree[1].name \in s_TSC_CONFIG
    /\ tree[2].depth = 1
    /\ \A k \in 1..Len(trace) : trace[k] # Event("read", tree[2].name)

\* The yielded paths are, once each, the entries of the given types that lie
\* in directories the walk comes to.
YieldsExactly(types) ==
    LET want == { j \in ReachableEntries : tree[j].type \in types }
    IN  /\ \A j \in want :
               Cardinality({ i \in 1..Len(yielded) : yielded[i] = RelPathOf(j) }) = 1
        /\ \A i \in 1..Len(yielded) :
               \E j \in want : yielded[i] = RelPathOf(j)

\* C9 (as claimed): a finished walkFiles has yielded no directory and, exactly
\* once each, every entry that is not a directory and lies in directories
\* the walk comes to, whatever the entry's type.
C9_EveryNonDirectoryYielded ==
    (op = "getFileList" /\ pc = "done") =>
        YieldsExactly({"file", "other"})

\* C9 (amended): a finished walkFiles has yielded no directory and, exactly
\* once each, every regular file that lies in directories the walk comes to,
\* at any depth; entries that are neither directories nor regular files are
\* not yielded. The results of getFileList are these paths, made absolute.
C9_EveryRegularFileYielded ==
    op = "getFileList" =>
        /\ yielded # <<>> =>
               LET reachable == ReachableEntries
               IN  \A i \in 1..Len(yielded) :
                       \E j \in reachable :
                           tree[j].type = "file" /\ yielded[i] = RelPathOf(j)
        /\ pc = "done" =>
               /\ YieldsExactly({"file"})
               /\ ret = [i \in 1..Len(yielded) |->
                             TreeRoot \o <<"/">> \o yielded[i]]

\* getFileList has walked a tree that holds a regular file two levels down
\* and an entry that is neither a directory nor a regular file.
C9_Witness ==
    /\ op = "getFileList"
    /\ pc = "done"
    /\ args.dir = <<".">>
    /\ \E j \in 1..Len(tree) :
           tree[j].type = "file" /\ tree[j].depth >= 2 /\ Reachable(j)
    /\ \E j \in 1..Len(tree) : tree[j].type = "other" /\ Reachable(j)

\* C10: when an opendir fails, of the root or of a directory the walk went
\* down to, that is the last thing the walk does: nothing more is opened,
\* read or yielded, and the handler ends in the error, not in a list or a
\* boolean. A lister never returns a list when a directory it has to open
\* cannot be opened.
C10_OpendirFailureAbortsTheWalk ==
    op \in WalkerOps =>
        /\ \A k \in 1..Len(trace) :
               (trace[k].ev = "opendir" /\ ~CanOpendir(trace[k].arg)) =>
                   /\ k = Len(trace)
                   /\ pc = "failed"
                   /\ stack = <<>>
                   /\ ret = <<"opendir", trace[k].arg>>
        /\ pc = "failed" =>
               /\ trace[Len(trace)].ev = "opendir"
               /\ ~CanOpendir(trace[Len(trace)].arg)
        /\ (pc = "done" /\ op \in Listers) =>
               LET root == WalkRoot
               IN  /\ root >= 0
                   /\ \A j \in 1..Len(tree) :
                          ( /\ tree[j].type = "dir"
                            /\ ReachableFrom(root, j)
                            /\ ~LeftOutFrom(root, j) ) => tree[j].readable

\* A lister has failed at a directory that could not be opened, after it had
\* yielded a path and with an entry of the same directory still unread.
C10_Witness ==
    /\ op \in Listers
    /\ pc = "failed"
    /\ Len(yielded) >= 1
    /\ \E j \in 1..(Len(tree) - 1) :
           /\ ~tree[j].readable
           /\ tree[j + 1].depth = tree[j].depth
           /\ trace[Len(trace)].arg = RelPathOf(j)

\* The directories two or more levels below the walk's root that are named
\* in skipDir, are not hidden, and lie in directories the walk comes to.
DeepSkipNamed ==
    LET root == WalkRoot
    IN  { j \in 1..Len(tree) :
            /\ tree[j].type = "dir"
            /\ tree[j].name \in SkipNames
            /\ ~Hidden(tree[j].name)
            /\ ParentOf(tree, j) # root
            /\ ReachableFrom(root, j) }

-----------------------------------------------------------------------------
(* Properties of the warning of openFiles. *)

\* The warnings logged between positions k and j of the trace.
WarningsIn(k, j) == { m \in k..j : trace[m].ev = "log:warn" }

\* Between positions k and j an existing candidate was found that neither
\* loading strategy can load.
LoadFailureIn(k, j) ==
    \E m \in k..j : /\ trace[m].ev = "existsSync"
                    /\ existsSync(trace[m].arg)
                    /\ LoadsNeither(trace[m].arg)

\* C12: a load failure does not escape openFiles as an exception. Every
\* openFiles call that has ended has ended by returning; a call in which an
\* existing candidate failed both require() and import() has logged exactly
\* one warning and returned null; a call in which no candidate exists or a
\* load succeeds has logged no warning. A handler that is done has returned
\* what its last openFiles call returned.
C12_LoadFailureWarnsOnceReturnsNull ==
    /\ \A k \in 1..Len(trace) : \A j \in (k + 1)..Len(trace) :
           ( /\ trace[k].ev = "call:openFiles"
             /\ trace[j].ev = "return:openFiles"
             /\ SameCall(k, j) ) =>
               IF LoadFailureIn(k, j)
               THEN /\ Cardinality(WarningsIn(k, j)) = 1
                    /\ trace[j].arg = Null
               ELSE WarningsIn(k, j) = {}
    /\ \A m \in 1..Len(trace) :
           trace[m].ev = "log:warn" =>
               /\ m < Len(trace)
               /\ trace[m + 1].ev = "return:openFiles"
               /\ \E k \in 1..(m - 1) : /\ trace[k].ev = "call:openFiles"
                                        /\ SameCall(k, m)
    /\ (op \in {"openFiles", "openLocalConfigs"} /\ pc = "done") =>
           /\ trace[Len(trace)].ev = "return:openFiles"
           /\ ret = trace[Len(trace)].arg

\* openFiles has returned null from a call that passed over an absent
\* candidate, found the next one existing, failed to load it both ways and
\* logged the warning.
C12_Witness ==
    /\ op = "openFiles"
    /\ pc = "done"
    /\ ret = Null
    /\ Len(args.extensions) = 2
    /\ ~ existsSync(CandidateAt(args.basePath, 1))
    /\ existsSync(CandidateAt(args.basePath, 2))
    /\ LoadsNeither(CandidateAt(args.basePath, 2))
    /\ Cardinality(WarningsIn(1, Len(trace))) = 1
    /\ trace[Len(trace) - 1].ev = "log:warn"

-----------------------------------------------------------------------------
(* Properties of getRelativePath. *)

\* C11: for all strings base and path, when path starts with base (as a
\* string) getRelativePath(base, path) does not start with the separator and
\* begins with './'; when path does not start with base, it is path itself.
C11_DotSlashOrUnchanged ==
    (op = "getRelativePath" /\ pc = "done") =>
        IF StartsWith(args.filePath, args.basePath)
        THEN /\ ~ StartsWith(ret, <<sep>>)
             /\ StartsWith(ret, <<dot, sep>>)
        ELSE ret = args.filePath

====
